---- MODULE Spec2Model ----
(***************************************************************************)
(* Student Portal API (src/main.py): authentication, approval gating,      *)
(* role and ownership checks of the request handlers over the Mongo        *)
(* collections user, course, assignment, enrollment, submission,           *)
(* announcement and material.                                              *)
(*                                                                         *)
(* Conventions.  A collection is the sequence of its documents in          *)
(* insertion order (find_one returns the first match).  An Optional value  *)
(* is a set with at most one element.  Time is counted in minutes.         *)
(* An ObjectId is the pair <<collection, n>> of the n-th document the      *)
(* store created in a collection; the 24-digit hexadecimal string of an    *)
(* id is the record [hex, upper]: ObjectId(s) accepts either case,         *)
(* str(ObjectId) is always lower case.  Document timestamps are kept for   *)
(* submissions only; the titles and descriptions of documents, which no    *)
(* handler reads back, are left out.  Requests are handled one at a time:  *)
(* a handler runs when no response is outstanding, and Return hands the    *)
(* response to the client.                                                 *)
(***************************************************************************)
EXTENDS Integers, Sequences, FiniteSets, TLC

\* ---------------------------------------------------------------- bounds
MaxCourses == 1
MaxAssignments == 1
MaxEnrollments == 1
MaxSubmissions == 2
MaxAnnouncements == 1
MaxMaterials == 1
MaxTokens == 3
MaxUsers == 3
MaxPending == 2
MaxTime == 80
TickStep == 40

\* ------------------------------------------------------ program constants
JWT_EXP_MIN == 60
SECRET_KEY == "dev-secret-key-change-me"
ADMIN_EMAIL == "admin@portal.com"
ADMIN_PASSWORD == "admin123"

None == "None"

Role == {"student", "teacher", "admin"}

VARIABLES db, started, now, user, course, assignment, enrollment,
          submission, announcement, material, tokens, pending, resp

vars == <<db, started, now, user, course, assignment, enrollment,
          submission, announcement, material, tokens, pending, resp>>

env == <<db, started, now, pending>>

\* ------------------------------------------------------------- ObjectId
NewId(name, coll) == <<name, Len(coll) + 1>>

BadHex == <<"", 0>>

str(id) == [hex |-> id, upper |-> FALSE]

\* ObjectId(id_str): a string that is no 24-digit hexadecimal raises
OidOk(s) == s.hex # BadHex

oid(s) == s.hex

\* the strings a client can send for the ids of a collection: each id in
\* the given spellings, an id no document has, and a string that is no id
IdStrings(name, coll, uppers) ==
    {[hex |-> <<name, n>>, upper |-> u] : n \in 1..(Len(coll) + 1), u \in uppers}
      \cup {[hex |-> BadHex, upper |-> FALSE]}

\* ------------------------------------------------------------ collections
Min(S) == CHOOSE x \in S : \A y \in S : x <= y

\* a query document {field: value, ...} matches the documents that have
\* every field with that value
Matches(coll, query) ==
    {i \in 1..Len(coll) :
        \A k \in DOMAIN query : k \in DOMAIN coll[i] /\ coll[i][k] = query[k]}

find_one(coll, query) ==
    IF Matches(coll, query) = {} THEN {} ELSE {coll[Min(Matches(coll, query))]}

find(coll, query) == {coll[i] : i \in Matches(coll, query)}

\* {"$set": fields} on one document
SetFields(d, fields) ==
    [k \in DOMAIN d \cup DOMAIN fields |->
        IF k \in DOMAIN fields THEN fields[k] ELSE d[k]]

update_one(coll, query, fields) ==
    IF Matches(coll, query) = {} THEN coll
    ELSE [coll EXCEPT ![Min(Matches(coll, query))] = SetFields(@, fields)]

insert_one(coll, doc) == Append(coll, doc)

The(S) == CHOOSE x \in S : TRUE

\* ---------------------------------------------------------------- bcrypt
bcrypt_hash(password) == <<"$2b$", password>>

bcrypt_verify(password, h) == h[1] = "$2b$" /\ h[2] = password

\* ----------------------------------------------------------------- tokens
\* a faulty variant of create_token that leaves the lifetime out
create_token_NoLifetime(u) ==
    [sub |-> str(u._id), role |-> u.role, exp |-> now, key |-> SECRET_KEY]

create_token(u) ==
    [sub |-> str(u._id), role |-> u.role, exp |-> now + JWT_EXP_MIN,
     key |-> SECRET_KEY]

\* jwt.decode: the signature first, then the exp claim
SignatureValid(t) == t.key = SECRET_KEY

\* a faulty variant of Expired that never rejects
Expired_Never(t) == FALSE

Expired(t) == t.exp <= now

\* scheme.lower()
Lower(s) ==
    IF s \in {"Bearer", "BEARER", "bearer"} THEN "bearer"
    ELSE IF s \in {"Basic", "BASIC", "basic"} THEN "basic"
    ELSE s

NoHeader == [kind |-> "none", scheme |-> None, tok |-> {}]

\* a header that authorization.split(" ") does not cut in two
MalformedHeader == [kind |-> "malformed", scheme |-> None, tok |-> {}]

Bearer(t) == [kind |-> "pair", scheme |-> "Bearer", tok |-> {t}]

\* a token signed with another key, claiming an existing account
Forged ==
    {[sub |-> str(user[i]._id), role |-> "admin",
      exp |-> MaxTime + TickStep + JWT_EXP_MIN, key |-> "other-key"] : i \in {1} \cap DOMAIN user}

\* the Authorization headers a client can send: none, a malformed one, a
\* token it was issued under either scheme, a forged token
Headers ==
    {NoHeader, MalformedHeader}
      \cup {[kind |-> "pair", scheme |-> s, tok |-> {t}] :
              s \in {"Bearer", "Basic"}, t \in tokens}
      \cup {Bearer(t) : t \in Forged}

Ok(u) == [ok |-> TRUE, status |-> 200, detail |-> "", user |-> {u}]

Err(code, msg) == [ok |-> FALSE, status |-> code, detail |-> msg, user |-> {}]

get_current_user(authorization) ==
    IF authorization.kind = "none"
    THEN Err(401, "Missing Authorization header")
    ELSE IF authorization.kind = "malformed" THEN Err(401, "Invalid token")
    ELSE IF Lower(authorization.scheme) # "bearer" THEN Err(401, "Invalid token")
    ELSE LET token == The(authorization.tok) IN
         IF ~SignatureValid(token) THEN Err(401, "Invalid token")
         ELSE IF Expired(token) THEN Err(401, "Token expired")
         ELSE IF ~db THEN Err(401, "Invalid token")
         ELSE IF ~OidOk(token.sub) THEN Err(401, "Invalid token")
         ELSE LET found == find_one(user, [_id |-> oid(token.sub)]) IN
              IF found = {} THEN Err(401, "Invalid token") ELSE Ok(The(found))

\* a faulty variant of require_role that lets every role pass
require_role_Any(u, roles) == u.role \in Role

require_role(u, roles) == u.role \in roles

serialize_doc(d) ==
    [k \in (DOMAIN d \ {"_id"}) \cup {"id"} |->
        IF k = "id" THEN str(d._id) ELSE d[k]]

Public(u) == [k \in DOMAIN u \ {"password_hash"} |-> u[k]]

\* --------------------------------------------------------------- response
NoArg == [none |-> TRUE]

Idle ==
    [op |-> "idle", hdr |-> NoHeader, arg |-> NoArg, status |-> 0,
     detail |-> "", token |-> {}, out |-> {}]

Respond(op, hdr, arg, status, detail, token, out) ==
    resp' = [op |-> op, hdr |-> hdr, arg |-> arg, status |-> status,
             detail |-> detail, token |-> token, out |-> out]

\* a response that leaves the store and the issued tokens as they were
Reject(op, hdr, arg, status, detail) ==
    /\ Respond(op, hdr, arg, status, detail, {}, {})
    /\ UNCHANGED <<user, course, assignment, enrollment, submission,
                   announcement, material, tokens>>

\* a successful read
Reply(op, hdr, arg, out) ==
    /\ Respond(op, hdr, arg, 200, "", {}, out)
    /\ UNCHANGED <<user, course, assignment, enrollment, submission,
                   announcement, material, tokens>>

Serving == started /\ resp = Idle

Init ==
    /\ db \in BOOLEAN
    /\ started = FALSE
    /\ now = 0
    /\ user = <<>>
    /\ course = <<>>
    /\ assignment = <<>>
    /\ enrollment = <<>>
    /\ submission = <<>>
    /\ announcement = <<>>
    /\ material = <<>>
    /\ tokens = {}
    /\ pending = {}
    /\ resp = Idle

\* the response is sent; the next request can be handled
Return ==
    /\ resp # Idle
    /\ resp' = Idle
    /\ UNCHANGED <<env, user, course, assignment, enrollment, submission,
                   announcement, material, tokens>>

\* the passing of time between two requests
Tick ==
    /\ resp = Idle
    /\ now < MaxTime
    /\ now' = now + TickStep
    /\ UNCHANGED <<db, started, pending, user, course, assignment, enrollment,
                   submission, announcement, material, tokens, resp>>

AdminDoc(id) ==
    [_id |-> id, name |-> "Administrator", email |-> ADMIN_EMAIL,
     password_hash |-> bcrypt_hash(ADMIN_PASSWORD), role |-> "admin",
     approved |-> TRUE]

\* startup: the handlers are served once it has run
seed_admin ==
    /\ ~started
    /\ started' = TRUE
    /\ IF db /\ find_one(user, [email |-> ADMIN_EMAIL]) = {}
       THEN user' = insert_one(user, AdminDoc(NewId("user", user)))
       ELSE UNCHANGED user
    /\ UNCHANGED <<db, now, pending, course, assignment, enrollment, submission,
                   announcement, material, tokens, resp>>

\* students auto-approved; teachers need admin approval
AutoApproved(role) == role = "student"

UserDoc(id, payload) ==
    [_id |-> id, name |-> payload.name, email |-> payload.email,
     password_hash |-> bcrypt_hash(payload.password), role |-> payload.role,
     approved |-> AutoApproved(payload.role)]

\* a faulty variant of SelfRegisterAsAdmin that lets the role through
SelfRegisterAsAdmin_Never(payload) == payload.role \notin Role

SelfRegisterAsAdmin(payload) == payload.role = "admin"

\* a faulty variant of EmailRegistered that looks among the admins only
EmailRegistered_AdminsOnly(email) ==
    find_one(user, [email |-> email, role |-> "admin"]) # {}

EmailRegistered(email) == find_one(user, [email |-> email]) # {}

register(payload) ==
    /\ Serving
    /\ IF ~db
       THEN Reject("register", NoHeader, payload, 500, "Database unavailable")
       ELSE IF SelfRegisterAsAdmin(payload)
       THEN Reject("register", NoHeader, payload, 400, "Cannot self-register as admin")
       ELSE IF EmailRegistered(payload.email)
       THEN Reject("register", NoHeader, payload, 400, "Email already registered")
       ELSE LET user_doc == UserDoc(NewId("user", user), payload)
                token == create_token(user_doc) IN
            /\ Cardinality(tokens \cup {token}) <= MaxTokens
            /\ user' = insert_one(user, user_doc)
            /\ tokens' = tokens \cup {token}
            /\ Respond("register", NoHeader, payload, 200, "", {token}, {})
            /\ UNCHANGED <<course, assignment, enrollment, submission,
                           announcement, material>>
    /\ UNCHANGED env

\* a faulty variant of InvalidCredentials that looks at the password of approved
\* accounts only
InvalidCredentials_ApprovedOnly(found, password) ==
    \/ found = {}
    \/ /\ ~bcrypt_verify(password, The(found).password_hash)
       /\ (The(found).role = "admin" \/ The(found).approved)

\* not user or not bcrypt.verify(password, user.get("password_hash", ""))
InvalidCredentials(found, password) ==
    found = {} \/ ~bcrypt_verify(password, The(found).password_hash)

\* a faulty variant of PendingApproval that holds back students only
PendingApproval_StudentsOnly(u) == u.role = "student" /\ ~u.approved

PendingApproval(u) == u.role # "admin" /\ ~u.approved

login(payload) ==
    /\ Serving
    /\ IF ~db
       THEN Reject("login", NoHeader, payload, 500, "Database unavailable")
       ELSE LET found == find_one(user, [email |-> payload.email]) IN
            IF InvalidCredentials(found, payload.password)
            THEN Reject("login", NoHeader, payload, 401, "Invalid credentials")
            ELSE IF PendingApproval(The(found))
            THEN Reject("login", NoHeader, payload, 403, "Account pending approval")
            ELSE LET token == create_token(The(found)) IN
                 /\ Cardinality(tokens \cup {token}) <= MaxTokens
                 /\ tokens' = tokens \cup {token}
                 /\ Respond("login", NoHeader, payload, 200, "", {token}, {})
                 /\ UNCHANGED <<user, course, assignment, enrollment, submission,
                                announcement, material>>
    /\ UNCHANGED env

me(authorization) ==
    /\ Serving
    /\ LET current == get_current_user(authorization) IN
       IF ~current.ok
       THEN Reject("me", authorization, NoArg, current.status, current.detail)
       ELSE Reply("me", authorization, NoArg, {serialize_doc(Public(The(current.user)))})
    /\ UNCHANGED env

\* a faulty variant of NotNone that writes the approval flag with the profile
NotNone_Approving(update) ==
    [k \in {f \in DOMAIN update : update[f] # None} \cup {"approved"} |->
        IF k = "approved" THEN TRUE ELSE update[k]]

\* {k: v for k, v in update.model_dump().items() if v is not None}
NotNone(update) ==
    [k \in {f \in DOMAIN update : update[f] # None} |-> update[k]]

update_me(authorization, update) ==
    /\ Serving
    /\ LET current == get_current_user(authorization) IN
       IF ~current.ok
       THEN Reject("update_me", authorization, update, current.status, current.detail)
       ELSE IF ~db
       THEN Reject("update_me", authorization, update, 500, "Database unavailable")
       ELSE IF DOMAIN NotNone(update) = {}
       THEN Reply("update_me", authorization, update, {serialize_doc(The(current.user))})
       ELSE LET id == The(current.user)._id IN
            /\ user' = update_one(user, [_id |-> id], NotNone(update))
            /\ Respond("update_me", authorization, update, 200, "", {},
                       {serialize_doc(Public(The(find_one(user', [_id |-> id]))))})
            /\ UNCHANGED <<course, assignment, enrollment, submission,
                           announcement, material, tokens>>
    /\ UNCHANGED env

\* ------------------------------------------------------ teacher endpoints
\* the head of every role-gated handler: Depends(get_current_user), the
\* check of db, require_role
Gate(authorization, roles) ==
    LET current == get_current_user(authorization) IN
    IF ~current.ok THEN current
    ELSE IF ~db THEN Err(500, "Database unavailable")
    ELSE IF ~require_role(The(current.user), roles) THEN Err(403, "Forbidden")
    ELSE current

\* a faulty variant of NotYourCourse that tests the wrong role
NotYourCourse_WrongRole(current, c) ==
    current.role = "admin" /\ c.teacher_id # str(current._id)

\* current["role"] == "teacher" and course.get("teacher_id") != str(current["_id"])
NotYourCourse(current, c) ==
    current.role = "teacher" /\ c.teacher_id # str(current._id)

create_course(authorization, body) ==
    /\ Serving
    /\ LET g == Gate(authorization, {"teacher", "admin"}) IN
       IF ~g.ok THEN Reject("create_course", authorization, body, g.status, g.detail)
       ELSE LET current == The(g.user)
                doc == [_id |-> NewId("course", course),
                        teacher_id |->
                          IF current.role = "teacher" THEN str(current._id)
                          ELSE IF "teacher_id" \in DOMAIN body THEN body.teacher_id
                          ELSE str(current._id)] IN
            /\ Len(course) < MaxCourses
            /\ course' = insert_one(course, doc)
            /\ Respond("create_course", authorization, body, 200, "", {},
                       {serialize_doc(doc)})
            /\ UNCHANGED <<user, assignment, enrollment, submission,
                           announcement, material, tokens>>
    /\ UNCHANGED env

my_courses(authorization) ==
    /\ Serving
    /\ LET g == Gate(authorization, {"teacher", "admin"}) IN
       IF ~g.ok THEN Reject("my_courses", authorization, NoArg, g.status, g.detail)
       ELSE LET current == The(g.user)
                q == IF current.role = "teacher"
                     THEN [teacher_id |-> str(current._id)] ELSE <<>> IN
            Reply("my_courses", authorization, NoArg,
                  {serialize_doc(c) : c \in find(course, q)})
    /\ UNCHANGED env

create_assignment(authorization, body) ==
    /\ Serving
    /\ LET g == Gate(authorization, {"teacher", "admin"}) IN
       IF ~g.ok THEN Reject("create_assignment", authorization, body, g.status, g.detail)
       ELSE IF ~OidOk(body.course_id)
       THEN Reject("create_assignment", authorization, body, 400, "Invalid id format")
       ELSE LET current == The(g.user)
                c == find_one(course, [_id |-> oid(body.course_id)]) IN
            IF c = {}
            THEN Reject("create_assignment", authorization, body, 404, "Course not found")
            ELSE IF NotYourCourse(current, The(c))
            THEN Reject("create_assignment", authorization, body, 403, "Not your course")
            ELSE LET doc == [_id |-> NewId("assignment", assignment),
                             course_id |-> body.course_id] IN
                 /\ Len(assignment) < MaxAssignments
                 /\ assignment' = insert_one(assignment, doc)
                 /\ Respond("create_assignment", authorization, body, 200, "", {},
                            {serialize_doc(doc)})
                 /\ UNCHANGED <<user, course, enrollment, submission,
                                announcement, material, tokens>>
    /\ UNCHANGED env

list_submissions(authorization, assignment_id) ==
    /\ Serving
    /\ LET g == Gate(authorization, {"teacher", "admin"}) IN
       IF ~g.ok
       THEN Reject("list_submissions", authorization, assignment_id, g.status, g.detail)
       ELSE IF ~OidOk(assignment_id)
       THEN Reject("list_submissions", authorization, assignment_id, 400,
                   "Invalid id format")
       ELSE LET current == The(g.user)
                a == find_one(assignment, [_id |-> oid(assignment_id)]) IN
            IF a = {}
            THEN Reject("list_submissions", authorization, assignment_id, 404,
                        "Assignment not found")
            ELSE LET c == find_one(course, [_id |-> oid(The(a).course_id)]) IN
                 IF c = {}
                 THEN Reject("list_submissions", authorization, assignment_id, 500,
                             "Internal Server Error")
                 ELSE IF NotYourCourse(current, The(c))
                 THEN Reject("list_submissions", authorization, assignment_id, 403,
                             "Not your course")
                 ELSE Reply("list_submissions", authorization, assignment_id,
                            {serialize_doc(s) :
                               s \in find(submission, [assignment_id |-> assignment_id])})
    /\ UNCHANGED env

grade_submission(authorization, body) ==
    /\ Serving
    /\ LET g == Gate(authorization, {"teacher", "admin"}) IN
       IF ~g.ok THEN Reject("grade_submission", authorization, body, g.status, g.detail)
       ELSE IF ~OidOk(body.submission_id)
       THEN Reject("grade_submission", authorization, body, 400, "Invalid id format")
       ELSE LET current == The(g.user)
                sub == find_one(submission, [_id |-> oid(body.submission_id)]) IN
            IF sub = {}
            THEN Reject("grade_submission", authorization, body, 404,
                        "Submission not found")
            ELSE LET a == find_one(assignment, [_id |-> oid(The(sub).assignment_id)])
                     c == IF a = {} THEN {}
                          ELSE find_one(course, [_id |-> oid(The(a).course_id)]) IN
                 IF c = {}
                 THEN Reject("grade_submission", authorization, body, 500,
                             "Internal Server Error")
                 ELSE IF NotYourCourse(current, The(c))
                 THEN Reject("grade_submission", authorization, body, 403,
                             "Not your course")
                 ELSE /\ submission' =
                           update_one(submission, [_id |-> The(sub)._id],
                                      [grade |-> body.grade, feedback |-> body.feedback,
                                       updated_at |-> now])
                      /\ Respond("grade_submission", authorization, body, 200, "", {},
                                 {serialize_doc(The(find_one(submission',
                                                             [_id |-> The(sub)._id])))})
                      /\ UNCHANGED <<user, course, assignment, enrollment,
                                     announcement, material, tokens>>
    /\ UNCHANGED env

\* body.course_id is Optional: a set with at most one string
create_announcement(authorization, body) ==
    /\ Serving
    /\ LET g == Gate(authorization, {"teacher", "admin"}) IN
       IF ~g.ok
       THEN Reject("create_announcement", authorization, body, g.status, g.detail)
       ELSE LET current == The(g.user)
                doc == [_id |-> NewId("announcement", announcement),
                        author_id |-> str(current._id),
                        course_id |-> body.course_id, audience |-> body.audience]
                insert ==
                    /\ Len(announcement) < MaxAnnouncements
                    /\ announcement' = insert_one(announcement, doc)
                    /\ Respond("create_announcement", authorization, body, 200, "",
                               {}, {serialize_doc(doc)})
                    /\ UNCHANGED <<user, course, assignment, enrollment, submission,
                                   material, tokens>> IN
            IF body.audience # "course" THEN insert
            ELSE IF body.course_id = {}
            THEN Reject("create_announcement", authorization, body, 400,
                        "course_id required for course audience")
            ELSE IF ~OidOk(The(body.course_id))
            THEN Reject("create_announcement", authorization, body, 400,
                        "Invalid id format")
            ELSE LET c == find_one(course, [_id |-> oid(The(body.course_id))]) IN
                 IF c = {}
                 THEN Reject("create_announcement", authorization, body, 404,
                             "Course not found")
                 ELSE IF NotYourCourse(current, The(c))
                 THEN Reject("create_announcement", authorization, body, 403,
                             "Not your course")
                 ELSE insert
    /\ UNCHANGED env

upload_material(authorization, body) ==
    /\ Serving
    /\ LET g == Gate(authorization, {"teacher", "admin"}) IN
       IF ~g.ok THEN Reject("upload_material", authorization, body, g.status, g.detail)
       ELSE IF ~OidOk(body.course_id)
       THEN Reject("upload_material", authorization, body, 400, "Invalid id format")
       ELSE LET current == The(g.user)
                c == find_one(course, [_id |-> oid(body.course_id)]) IN
            IF c = {}
            THEN Reject("upload_material", authorization, body, 404, "Course not found")
            ELSE IF NotYourCourse(current, The(c))
            THEN Reject("upload_material", authorization, body, 403, "Not your course")
            ELSE LET doc == [_id |-> NewId("material", material),
                             course_id |-> body.course_id] IN
                 /\ Len(material) < MaxMaterials
                 /\ material' = insert_one(material, doc)
                 /\ Respond("upload_material", authorization, body, 200, "", {},
                            {serialize_doc(doc)})
                 /\ UNCHANGED <<user, course, assignment, enrollment, submission,
                                announcement, tokens>>
    /\ UNCHANGED env

\* ------------------------------------------------------ student endpoints
Enrolled(current) ==
    find(enrollment, [student_id |-> str(current._id), status |-> "enrolled"])

student_courses(authorization) ==
    /\ Serving
    /\ LET g == Gate(authorization, {"student"}) IN
       IF ~g.ok THEN Reject("student_courses", authorization, NoArg, g.status, g.detail)
       ELSE LET course_ids == {oid(e.course_id) : e \in Enrolled(The(g.user))} IN
            Reply("student_courses", authorization, NoArg,
                  {serialize_doc(course[i]) :
                     i \in {j \in DOMAIN course : course[j]._id \in course_ids}})
    /\ UNCHANGED env

enroll_course(authorization, body) ==
    /\ Serving
    /\ LET g == Gate(authorization, {"student"}) IN
       IF ~g.ok THEN Reject("enroll_course", authorization, body, g.status, g.detail)
       ELSE IF ~OidOk(body.course_id)
       THEN Reject("enroll_course", authorization, body, 400, "Invalid id format")
       ELSE LET current == The(g.user)
                c == find_one(course, [_id |-> oid(body.course_id)])
                exists == find_one(enrollment, [course_id |-> body.course_id,
                                                student_id |-> str(current._id)]) IN
            IF c = {}
            THEN Reject("enroll_course", authorization, body, 404, "Course not found")
            ELSE IF exists # {} /\ The(exists).status = "enrolled"
            THEN Reply("enroll_course", authorization, body, {serialize_doc(The(exists))})
            ELSE LET doc == [_id |-> NewId("enrollment", enrollment),
                             course_id |-> body.course_id,
                             student_id |-> str(current._id),
                             status |-> "enrolled"] IN
                 /\ Len(enrollment) < MaxEnrollments
                 /\ enrollment' = insert_one(enrollment, doc)
                 /\ Respond("enroll_course", authorization, body, 200, "", {},
                            {serialize_doc(doc)})
                 /\ UNCHANGED <<user, course, assignment, submission,
                                announcement, material, tokens>>
    /\ UNCHANGED env

student_assignments(authorization) ==
    /\ Serving
    /\ LET g == Gate(authorization, {"student"}) IN
       IF ~g.ok
       THEN Reject("student_assignments", authorization, NoArg, g.status, g.detail)
       ELSE LET course_ids == {e.course_id : e \in Enrolled(The(g.user))} IN
            Reply("student_assignments", authorization, NoArg,
                  {serialize_doc(assignment[i]) :
                     i \in {j \in DOMAIN assignment :
                              assignment[j].course_id \in course_ids}})
    /\ UNCHANGED env

submit_assignment(authorization, body) ==
    /\ Serving
    /\ LET g == Gate(authorization, {"student"}) IN
       IF ~g.ok THEN Reject("submit_assignment", authorization, body, g.status, g.detail)
       ELSE IF ~OidOk(body.assignment_id)
       THEN Reject("submit_assignment", authorization, body, 400, "Invalid id format")
       ELSE LET current == The(g.user)
                a == find_one(assignment, [_id |-> oid(body.assignment_id)]) IN
            IF a = {}
            THEN Reject("submit_assignment", authorization, body, 404,
                        "Assignment not found")
            ELSE LET enr == find_one(enrollment,
                                     [course_id |-> The(a).course_id,
                                      student_id |-> str(current._id),
                                      status |-> "enrolled"])
                     existing == find_one(submission,
                                          [assignment_id |-> body.assignment_id,
                                           student_id |-> str(current._id)])
                     doc == [assignment_id |-> body.assignment_id,
                             student_id |-> str(current._id),
                             content |-> body.content, file_url |-> body.file_url,
                             created_at |-> now, updated_at |-> now] IN
                 IF enr = {}
                 THEN Reject("submit_assignment", authorization, body, 403,
                             "Not enrolled in course")
                 ELSE IF existing # {}
                 THEN /\ submission' =
                           update_one(submission, [_id |-> The(existing)._id], doc)
                      /\ Respond("submit_assignment", authorization, body, 200, "", {},
                                 {serialize_doc(The(find_one(submission',
                                                    [_id |-> The(existing)._id])))})
                      /\ UNCHANGED <<user, course, assignment, enrollment,
                                     announcement, material, tokens>>
                 ELSE LET new == SetFields(doc, [_id |-> NewId("submission", submission)]) IN
                      /\ Len(submission) < MaxSubmissions
                      /\ submission' = insert_one(submission, new)
                      /\ Respond("submit_assignment", authorization, body, 200, "", {},
                                 {serialize_doc(new)})
                      /\ UNCHANGED <<user, course, assignment, enrollment,
                                     announcement, material, tokens>>
    /\ UNCHANGED env

\* ------------------------------------------- announcements and materials
list_announcements(authorization) ==
    /\ Serving
    /\ LET current == get_current_user(authorization) IN
       IF ~current.ok
       THEN Reject("list_announcements", authorization, NoArg, current.status,
                   current.detail)
       ELSE IF ~db
       THEN Reject("list_announcements", authorization, NoArg, 500,
                   "Database unavailable")
       ELSE LET role == The(current.user).role
                course_ids == {e.course_id : e \in Enrolled(The(current.user))}
                Shown(a) ==
                    IF role = "student"
                    THEN \/ a.audience = "all"
                         \/ a.audience = "course" /\ a.course_id \subseteq course_ids
                                                  /\ a.course_id # {}
                    ELSE IF role = "teacher" THEN a.audience \in {"all", "course"}
                    ELSE TRUE IN
            Reply("list_announcements", authorization, NoArg,
                  {serialize_doc(announcement[i]) :
                     i \in {j \in DOMAIN announcement : Shown(announcement[j])}})
    /\ UNCHANGED env

list_materials(authorization) ==
    /\ Serving
    /\ LET current == get_current_user(authorization) IN
       IF ~current.ok
       THEN Reject("list_materials", authorization, NoArg, current.status,
                   current.detail)
       ELSE IF ~db
       THEN Reject("list_materials", authorization, NoArg, 500, "Database unavailable")
       ELSE LET role == The(current.user).role
                course_ids == {e.course_id : e \in Enrolled(The(current.user))}
                Shown(m) == role = "student" => m.course_id \in course_ids IN
            Reply("list_materials", authorization, NoArg,
                  {serialize_doc(material[i]) :
                     i \in {j \in DOMAIN material : Shown(material[j])}})
    /\ UNCHANGED env

\* -------------------------------------------------------- admin endpoints
list_users(authorization) ==
    /\ Serving
    /\ LET g == Gate(authorization, {"admin"}) IN
       IF ~g.ok THEN Reject("list_users", authorization, NoArg, g.status, g.detail)
       ELSE Reply("list_users", authorization, NoArg,
                  {serialize_doc(Public(user[i])) : i \in DOMAIN user})
    /\ UNCHANGED env

approve_user(authorization, body) ==
    /\ Serving
    /\ LET g == Gate(authorization, {"admin"}) IN
       IF ~g.ok THEN Reject("approve_user", authorization, body, g.status, g.detail)
       ELSE IF ~OidOk(body.user_id)
       THEN Reject("approve_user", authorization, body, 400, "Invalid id format")
       ELSE LET updated == update_one(user, [_id |-> oid(body.user_id)],
                                      [approved |-> body.approved])
                u == find_one(updated, [_id |-> oid(body.user_id)]) IN
            IF u = {}
            THEN Reject("approve_user", authorization, body, 404, "User not found")
            ELSE /\ user' = updated
                 /\ Respond("approve_user", authorization, body, 200, "", {},
                            {serialize_doc(Public(The(u)))})
                 /\ UNCHANGED <<course, assignment, enrollment, submission,
                                announcement, material, tokens>>
    /\ UNCHANGED env

assign_teacher(authorization, body) ==
    /\ Serving
    /\ LET g == Gate(authorization, {"admin"}) IN
       IF ~g.ok THEN Reject("assign_teacher", authorization, body, g.status, g.detail)
       ELSE IF ~OidOk(body.teacher_id)
       THEN Reject("assign_teacher", authorization, body, 400, "Invalid id format")
       ELSE LET teacher == find_one(user, [_id |-> oid(body.teacher_id)]) IN
            IF teacher = {} \/ The(teacher).role # "teacher"
            THEN Reject("assign_teacher", authorization, body, 400, "Invalid teacher")
            ELSE IF ~OidOk(body.course_id)
            THEN Reject("assign_teacher", authorization, body, 400, "Invalid id format")
            ELSE LET updated == update_one(course, [_id |-> oid(body.course_id)],
                                           [teacher_id |-> body.teacher_id])
                     c == find_one(updated, [_id |-> oid(body.course_id)]) IN
                 IF c = {}
                 THEN Reject("assign_teacher", authorization, body, 404,
                             "Course not found")
                 ELSE /\ course' = updated
                      /\ Respond("assign_teacher", authorization, body, 200, "", {},
                                 {serialize_doc(The(c))})
                      /\ UNCHANGED <<user, assignment, enrollment, submission,
                                     announcement, material, tokens>>
    /\ UNCHANGED env

stats(authorization) ==
    /\ Serving
    /\ LET g == Gate(authorization, {"admin"}) IN
       IF ~g.ok THEN Reject("stats", authorization, NoArg, g.status, g.detail)
       ELSE Reply("stats", authorization, NoArg,
                  {[users |-> Len(user),
                    students |-> Cardinality(Matches(user, [role |-> "student"])),
                    teachers |-> Cardinality(Matches(user, [role |-> "teacher"])),
                    courses |-> Len(course), assignments |-> Len(assignment),
                    submissions |-> Len(submission),
                    announcements |-> Len(announcement),
                    materials |-> Len(material)]})
    /\ UNCHANGED env

\* ------------------------------------------------------------- the inputs
Ann(email, role) == [name |-> "Ann", email |-> email, password |-> "pw1", role |-> role]

LoginRequest(emails) == [email : emails, password : {ADMIN_PASSWORD, "pw1"}]

ProfileUpdate ==
    {[name |-> None, bio |-> None, avatar_url |-> None],
     [name |-> "Bob", bio |-> "bio", avatar_url |-> None]}

CourseCreate == [title |-> "Course"]

ApproveUserRequest(uppers, flags) ==
    [user_id : IdStrings("user", user, uppers), approved : flags]

\* --------------------------------------------------- accounts and tokens
RegisterRequest == {Ann(e, r) : e \in {ADMIN_EMAIL, "a@x.com"}, r \in Role}

Next ==
    \/ seed_admin
    \/ Return
    \/ Tick
    \/ \E payload \in RegisterRequest : register(payload)
    \/ \E payload \in LoginRequest({ADMIN_EMAIL, "a@x.com", "b@x.com"}) : login(payload)
    \/ \E h \in Headers : me(h)
    \/ \E h \in Headers, u \in ProfileUpdate : update_me(h, u)
    \/ \E h \in Headers : create_course(h, CourseCreate)
    \/ \E h \in Headers : list_users(h)
    \/ \E h \in Headers, b \in ApproveUserRequest(BOOLEAN, BOOLEAN) : approve_user(h, b)

Spec == Init /\ [][Next]_vars

\* ------------------------------------------------------ the whole portal
\* no header, a token the client was issued, a forged token
Credentials == {NoHeader} \cup {Bearer(t) : t \in tokens \cup Forged}

RegisterPortal ==
    {Ann("a@x.com", "teacher"), Ann("b@x.com", "student"), Ann("b@x.com", "admin")}

CourseRef(uppers) == [course_id : IdStrings("course", course, uppers)]

AnnouncementCreate(uppers) ==
    [audience : {"all", "course"},
     course_id : {{}} \cup {{c} : c \in IdStrings("course", course, uppers)}]

\* an announcement to all without a course, or to a course
PlainAnnouncement ==
    {b \in AnnouncementCreate({FALSE}) : b.audience = "all" <=> b.course_id = {}}

SubmissionCreate(uppers, contents) ==
    [assignment_id : IdStrings("assignment", assignment, uppers),
     content : contents, file_url : {None}]

GradeRequest(uppers) ==
    [submission_id : IdStrings("submission", submission, uppers),
     grade : {90}, feedback : {"good"}]

AssignTeacherRequest(uppers) ==
    [course_id : IdStrings("course", course, uppers),
     teacher_id : IdStrings("user", user, uppers)]

NextPortal ==
    \/ seed_admin
    \/ Return
    \/ \E payload \in RegisterPortal : register(payload)
    \/ \E payload \in LoginRequest({ADMIN_EMAIL, "a@x.com"}) : login(payload)
    \/ \E h \in Credentials : me(h)
    \/ \E h \in Credentials : update_me(h, [name |-> "Ann", bio |-> None, avatar_url |-> None])
    \/ \E h \in Credentials : create_course(h, CourseCreate)
    \/ \E h \in Credentials : my_courses(h)
    \/ \E h \in Credentials, b \in CourseRef({FALSE}) : create_assignment(h, b)
    \/ \E h \in Credentials, a \in IdStrings("assignment", assignment, {FALSE}) :
          list_submissions(h, a)
    \/ \E h \in Credentials, b \in GradeRequest({FALSE}) : grade_submission(h, b)
    \/ \E h \in Credentials, b \in PlainAnnouncement : create_announcement(h, b)
    \/ \E h \in Credentials, b \in CourseRef({FALSE}) : upload_material(h, b)
    \/ \E h \in Credentials : student_courses(h)
    \/ \E h \in Credentials, b \in CourseRef({FALSE}) : enroll_course(h, b)
    \/ \E h \in Credentials : student_assignments(h)
    \/ \E h \in Credentials, b \in SubmissionCreate({FALSE}, {"essay"}) :
          submit_assignment(h, b)
    \/ \E h \in Credentials : list_announcements(h)
    \/ \E h \in Credentials : list_materials(h)
    \/ \E h \in Credentials : list_users(h)
    \/ \E h \in Credentials, b \in ApproveUserRequest({FALSE}, {TRUE}) : approve_user(h, b)
    \/ \E h \in Credentials, b \in AssignTeacherRequest({FALSE}) : assign_teacher(h, b)
    \/ \E h \in Credentials : stats(h)

SpecPortal == Init /\ [][NextPortal]_vars

\* -------------------------------------------------- courses and ownership
RegisterCourse ==
    {Ann("a@x.com", "teacher"), Ann("b@x.com", "teacher"), Ann("b@x.com", "student")}

\* an announcement that names no course, a course that exists, or, for the
\* audience of a course, any string
AnyAnnouncement ==
    {b \in AnnouncementCreate({FALSE}) :
        b.audience = "all" => \A c \in b.course_id : \E i \in DOMAIN course : c = str(course[i]._id)}

NextCourse ==
    \/ seed_admin
    \/ Return
    \/ \E payload \in RegisterCourse : register(payload)
    \/ \E payload \in LoginRequest({ADMIN_EMAIL}) : login(payload)
    \/ \E h \in Credentials : create_course(h, CourseCreate)
    \/ \E h \in Credentials, b \in AssignTeacherRequest({FALSE}) : assign_teacher(h, b)
    \/ \E h \in Credentials, b \in CourseRef({FALSE}) : create_assignment(h, b)
    \/ \E h \in Credentials, b \in AnyAnnouncement : create_announcement(h, b)
    \/ \E h \in Credentials, b \in CourseRef({FALSE}) : upload_material(h, b)
    \/ \E h \in Credentials, b \in CourseRef({FALSE}) : enroll_course(h, b)
    \/ \E h \in Credentials, b \in SubmissionCreate({FALSE}, {"essay"}) :
          submit_assignment(h, b)
    \/ \E h \in Credentials, a \in IdStrings("assignment", assignment, {FALSE}) :
          list_submissions(h, a)
    \/ \E h \in Credentials, b \in GradeRequest({FALSE}) : grade_submission(h, b)

SpecCourse == Init /\ [][NextCourse]_vars

\* ------------------------------------- register requests handled at once
\* register up to its lookup by email: the request that finds no account
\* goes on to insert one
register_find(k, payload) ==
    /\ started
    /\ \A r \in pending : r.k # k
    /\ IF ~db
       THEN Reject("register", NoHeader, payload, 500, "Database unavailable")
            /\ UNCHANGED pending
       ELSE IF SelfRegisterAsAdmin(payload)
       THEN Reject("register", NoHeader, payload, 400, "Cannot self-register as admin")
            /\ UNCHANGED pending
       ELSE IF EmailRegistered(payload.email)
       THEN Reject("register", NoHeader, payload, 400, "Email already registered")
            /\ UNCHANGED pending
       ELSE /\ pending' = pending \cup {[k |-> k, payload |-> payload]}
            /\ UNCHANGED <<user, course, assignment, enrollment, submission,
                           announcement, material, tokens, resp>>
    /\ UNCHANGED <<db, started, now>>

\* register from its insert on
register_insert(r) ==
    /\ r \in pending
    /\ LET user_doc == UserDoc(NewId("user", user), r.payload)
           token == create_token(user_doc) IN
       /\ Len(user) < MaxUsers
       /\ user' = insert_one(user, user_doc)
       /\ tokens' = tokens \cup {token}
       /\ Respond("register", NoHeader, r.payload, 200, "", {token}, {})
    /\ pending' = pending \ {r}
    /\ UNCHANGED <<db, started, now, course, assignment, enrollment, submission,
                   announcement, material>>

RegisterConc == {Ann(e, r) : e \in {ADMIN_EMAIL, "a@x.com", "b@x.com"}, r \in Role}

NextConc ==
    \/ seed_admin
    \/ \E k \in 1..MaxPending, payload \in RegisterConc : register_find(k, payload)
    \/ \E r \in pending : register_insert(r)

SpecConc == Init /\ [][NextConc]_vars

\* ------------------------------------------------- registering twice
\* every name, password and role a visitor can register under one email
RegisterTwice ==
    [name : {"Ann", "Bob"}, email : {"a@x.com"}, password : {"pw1", "pw2"},
     role : {"student", "teacher"}]
      \cup {[name |-> "Bob", email |-> ADMIN_EMAIL, password |-> "pw2",
              role |-> "student"]}

LoginTwice == [email : {"a@x.com", ADMIN_EMAIL}, password : {"pw1", "pw2", ADMIN_PASSWORD}]

NextRegister ==
    \/ seed_admin
    \/ Return
    \/ \E payload \in RegisterTwice : register(payload)
    \/ \E payload \in LoginTwice : login(payload)
    \/ \E h \in Credentials : me(h)
    \/ \E h \in Credentials, b \in ApproveUserRequest({FALSE}, BOOLEAN) : approve_user(h, b)

SpecRegister == Init /\ [][NextRegister]_vars

\* ------------------------------------------- submitting and grading
\* a student hands work in, an admin grades it, the student hands in again;
\* the assignment's id is sent in either spelling of its hexadecimal digits
NextSubmit ==
    \/ seed_admin
    \/ Return
    \/ Tick
    \/ register(Ann("b@x.com", "student"))
    \/ \E payload \in LoginRequest({ADMIN_EMAIL}) : login(payload)
    \/ \E h \in Credentials : create_course(h, CourseCreate)
    \/ \E h \in Credentials, b \in CourseRef({FALSE}) : create_assignment(h, b)
    \/ \E h \in Credentials, b \in CourseRef({FALSE}) : enroll_course(h, b)
    \/ \E h \in Credentials, b \in SubmissionCreate(BOOLEAN, {"essay", "essay2"}) :
          submit_assignment(h, b)
    \/ \E h \in Credentials, b \in GradeRequest({FALSE}) : grade_submission(h, b)

SpecSubmit == Init /\ [][NextSubmit]_vars

\* ------------------------------------------------ the store goes away
\* the process is started again, with or without a store configured; the
\* collections and the tokens that clients hold outlive it
Restart ==
    /\ Serving
    /\ db' \in BOOLEAN
    /\ started' = FALSE
    /\ UNCHANGED <<now, pending, user, course, assignment, enrollment,
                   submission, announcement, material, tokens, resp>>

NextOutage ==
    \/ Restart
    \/ NextPortal

SpecOutage == Init /\ [][NextOutage]_vars

\* ------------------------------------------------------------- the claims
\* the accounts stored under an email
AccountsWith(email) == {i \in DOMAIN user : user[i].email = email}

\* the token of a request that carries 'Bearer <token>'
Presented ==
    IF resp.hdr.kind = "pair" /\ resp.hdr.scheme = "Bearer" THEN resp.hdr.tok ELSE {}

\* the accounts a token names
Holders(t) == {i \in DOMAIN user : user[i]._id = t.sub.hex}

ByAdmin(r) ==
    \E t \in r.hdr.tok : \E i \in Holders(t) : user[i].role = "admin"

RightPassword(i, password) == user[i].password_hash = <<"$2b$", password>>

C1_RegisterPart ==
    (resp.op = "register" /\ resp.status = 200 /\ resp.arg.role = "teacher")
      => /\ resp.token # {}
         /\ \E i \in AccountsWith(resp.arg.email) :
              /\ ~user[i].approved
              /\ user[i].role = "teacher"
              /\ \A t \in resp.token : t.sub = [hex |-> user[i]._id, upper |-> FALSE]

C1_LoginPart ==
    resp.op = "login"
      => \A i \in AccountsWith(resp.arg.email) :
            (user[i].role = "teacher" /\ RightPassword(i, resp.arg.password))
              => IF user[i].approved
                 THEN /\ resp.status = 200
                      /\ resp.token # {}
                      /\ \A t \in resp.token : Holders(t) = {i}
                 ELSE resp.status = 403 /\ resp.token = {}

C1_ApprovalPart ==
    \A i \in DOMAIN user :
       (user[i].role = "teacher" /\ ~user[i].approved /\ user'[i].approved)
         => /\ resp'.op = "approve_user"
            /\ resp'.status = 200
            /\ resp'.arg.approved
            /\ ByAdmin(resp')

\* C1: a teacher's registration returns a token and stores the account
\* unapproved; a login with the account's email and password is answered
\* 403 without a token while approved is false, and 200 with a token of the
\* account when approved is true; approved of a teacher turns true only in
\* a successful approve_user request of an admin.
C1_TeacherApprovalLifecycle ==
    /\ [](C1_RegisterPart /\ C1_LoginPart)
    /\ [][C1_ApprovalPart]_vars

C1_Witness ==
    /\ resp.op = "login"
    /\ resp.status = 200
    /\ resp.token # {}
    /\ \E i \in AccountsWith(resp.arg.email) : user[i].role = "teacher"

\* C2: no successful request carries a token of a teacher account whose
\* approved flag is false.
C2_ApprovalGatesBearer ==
    (resp.status = 200 /\ Presented # {})
      => \A t \in Presented : \A i \in Holders(t) :
            user[i].role = "teacher" => user[i].approved

C5_RejectPart ==
    (db /\ resp.op = "register" /\ resp.arg.role = "admin")
      => /\ resp.status = 400
         /\ resp.detail = "Cannot self-register as admin"
         /\ resp.token = {}

C5_SeedPart ==
    \A i \in DOMAIN user :
       user[i].role = "admin"
         => /\ i = 1
            /\ user[i].email = ADMIN_EMAIL
            /\ RightPassword(i, ADMIN_PASSWORD)

C5_NoEffectPart ==
    (resp'.op = "register" /\ resp'.arg.role = "admin")
      => user' = user /\ tokens' = tokens

\* C5: with the store configured, register with role admin is answered 400
\* 'Cannot self-register as admin' whatever the name, email and password; it
\* inserts no account and issues no token; every account with role admin is
\* the one seed_admin inserted at startup.
C5_NoAdminSelfRegistration ==
    /\ [](C5_RejectPart /\ C5_SeedPart)
    /\ [][C5_NoEffectPart]_vars

C5_Witness ==
    /\ resp.op = "register"
    /\ resp.arg.role = "admin"
    /\ resp.status = 400
    /\ Len(user) >= 2

\* C8: with the store configured, a login with an email that has no account
\* and a login with a registered email and a wrong password get the same
\* answer, 401 'Invalid credentials' without a token, whatever the role and
\* the approved flag of the account; 403 is answered only to a login with
\* the right password.
C8_NoEnumerationThroughLogin ==
    (db /\ resp.op = "login")
      => /\ (\/ AccountsWith(resp.arg.email) = {}
             \/ \E i \in AccountsWith(resp.arg.email) :
                   ~RightPassword(i, resp.arg.password))
              => /\ resp.status = 401
                 /\ resp.detail = "Invalid credentials"
                 /\ resp.token = {}
         /\ resp.status = 403
              => \E i \in AccountsWith(resp.arg.email) :
                    RightPassword(i, resp.arg.password)

C8_Witness ==
    /\ resp.op = "login"
    /\ resp.status = 401
    /\ \E i \in AccountsWith(resp.arg.email) :
          /\ user[i].role = "teacher"
          /\ ~user[i].approved
          /\ ~RightPassword(i, resp.arg.password)

C9_IssuePart ==
    (resp.op \in {"register", "login"} /\ resp.status = 200)
      => /\ Cardinality(resp.token) = 1
         /\ resp.token \subseteq tokens
         /\ \A t \in resp.token :
               /\ now < t.exp
               /\ \E i \in AccountsWith(resp.arg.email) : Holders(t) = {i}
         /\ (resp.op = "register" /\ resp.arg.role = "student")
              => \A i \in AccountsWith(resp.arg.email) : user[i].approved

C9_ResolvePart ==
    (resp.op = "me" /\ Presented # {})
      => \A t \in Presented :
            (t \in tokens /\ now < t.exp)
              => /\ resp.status = 200
                 /\ Cardinality(Holders(t)) = 1
                 /\ \A i \in Holders(t) : \A o \in resp.out :
                       /\ DOMAIN o = (DOMAIN user[i] \ {"_id", "password_hash"}) \cup {"id"}
                       /\ o.id = t.sub
                       /\ \A k \in DOMAIN o \ {"id"} : o[k] = user[i][k]
                 /\ resp.out # {}

\* C9: a token returned by register or login names the account it was
\* issued for and is not yet expired; presented as 'Bearer <token>' before
\* its expiry it passes get_current_user, and /me answers with the record
\* the store holds for that id at that moment (role, approved and profile
\* fields as stored now, without the password hash); a student's
\* registration leaves the account approved.
C9_TokenRoundTrip == C9_IssuePart /\ C9_ResolvePart

C9_Witness ==
    /\ resp.op = "me"
    /\ resp.status = 200
    /\ \E o \in resp.out : o.name = "Bob" /\ o.role = "student" /\ ~o.approved

C10_IssuePart ==
    (resp.op \in {"register", "login"} /\ resp.status = 200)
      => \A t \in resp.token : t.exp = now + JWT_EXP_MIN

C10_RejectPart ==
    \A t \in Presented :
       (t \in tokens /\ now > t.exp)
         => resp.status = 401 /\ resp.detail = "Token expired"

C10_NoRenewalPart == tokens \subseteq tokens'

\* C10: a token is issued with exp = now + JWT_EXP_MIN; a request that
\* presents it after that time is answered 401 'Token expired' and nothing
\* else; the tokens issued are never replaced by others.
C10_TokenExpiry ==
    /\ [](C10_IssuePart /\ C10_RejectPart)
    /\ [][C10_NoRenewalPart]_vars

C10_Witness ==
    /\ resp.status = 401
    /\ resp.detail = "Token expired"
    /\ resp.op = "create_course"
    /\ \E t \in Presented : t \in tokens /\ now > t.exp

TeacherOps ==
    {"create_course", "my_courses", "create_assignment", "list_submissions",
     "grade_submission", "create_announcement", "upload_material"}

StudentOps ==
    {"student_courses", "enroll_course", "student_assignments", "submit_assignment"}

AdminOps == {"list_users", "approve_user", "assign_teacher", "stats"}

RequiredRoles(op) ==
    IF op \in TeacherOps THEN {"teacher", "admin"}
    ELSE IF op \in StudentOps THEN {"student"}
    ELSE {"admin"}

\* the request carries a token that was issued, has not expired and names
\* an account
ValidCredential(r) ==
    /\ r.hdr.kind = "pair"
    /\ r.hdr.scheme = "Bearer"
    /\ \A t \in r.hdr.tok : t \in tokens /\ now < t.exp /\ Holders(t) # {}

ActorRoles(r) == {user[i].role : i \in UNION {Holders(t) : t \in r.hdr.tok}}

C3_GatePart ==
    resp.op \in TeacherOps \cup StudentOps \cup AdminOps
      => /\ ~ValidCredential(resp) => resp.status = 401
         /\ (ValidCredential(resp) /\ ActorRoles(resp) \cap RequiredRoles(resp.op) = {})
              => resp.status = 403 /\ resp.detail = "Forbidden"
         /\ resp.status = 200
              => /\ ValidCredential(resp)
                 /\ ActorRoles(resp) \subseteq RequiredRoles(resp.op)

C3_EffectPart ==
    (/\ resp'.op \in TeacherOps \cup StudentOps \cup AdminOps
     /\ <<user, course, assignment, enrollment, submission, announcement,
          material>>' # <<user, course, assignment, enrollment, submission,
                          announcement, material>>)
      => resp'.status = 200

\* C3: a teacher/* operation answers 200 only to a valid credential of a
\* teacher or an admin, a student/* operation only to one of a student, an
\* admin/* operation only to one of an admin; a valid credential of another
\* role is answered 403 'Forbidden', a missing or invalid credential 401;
\* the store changes only in a request answered 200.
C3_RoleGate ==
    /\ []C3_GatePart
    /\ [][C3_EffectPart]_vars

C3_Witness ==
    /\ resp.op = "grade_submission"
    /\ resp.status = 403
    /\ resp.detail = "Forbidden"
    /\ ValidCredential(resp)
    /\ ActorRoles(resp) = {"student"}
    /\ Len(submission) > 0

OwnershipOps ==
    {"create_assignment", "upload_material", "create_announcement", "list_submissions",
     "grade_submission"}

\* the courses a request is about
CoursesOf(r) ==
    IF r.op \in {"create_assignment", "upload_material"}
    THEN {i \in DOMAIN course : course[i]._id = r.arg.course_id.hex}
    ELSE IF r.op = "create_announcement"
    THEN {i \in DOMAIN course : \E c \in r.arg.course_id : course[i]._id = c.hex}
    ELSE IF r.op = "list_submissions"
    THEN {i \in DOMAIN course :
            \E j \in DOMAIN assignment :
               /\ assignment[j]._id = r.arg.hex
               /\ course[i]._id = assignment[j].course_id.hex}
    ELSE IF r.op = "grade_submission"
    THEN {i \in DOMAIN course :
            \E k \in DOMAIN submission, j \in DOMAIN assignment :
               /\ submission[k]._id = r.arg.submission_id.hex
               /\ assignment[j]._id = submission[k].assignment_id.hex
               /\ course[i]._id = assignment[j].course_id.hex}
    ELSE {}

\* the course is recorded under the id of the account that sent the request
OwnedByActor(r, i) ==
    \A t \in r.hdr.tok : \A u \in Holders(t) :
       course[i].teacher_id = [hex |-> user[u]._id, upper |-> FALSE]

\* C4 as claimed: a teacher's request about a course it does not own,
\* an announcement of any audience included, is answered 403; an admin's
\* request about a course is answered 200.
C4_OwnershipAnyAudience ==
    (resp.op \in OwnershipOps /\ ValidCredential(resp))
      => /\ (ActorRoles(resp) = {"teacher"}
               /\ \E i \in CoursesOf(resp) : ~OwnedByActor(resp, i))
              => resp.status = 403
         /\ (ActorRoles(resp) = {"admin"} /\ CoursesOf(resp) # {})
              => resp.status = 200

\* announcements to all are outside the ownership rule
ToAll(r) == r.op = "create_announcement" /\ r.arg.audience = "all"

C4_OwnerPart ==
    (resp.op \in OwnershipOps /\ ValidCredential(resp))
      => /\ (ActorRoles(resp) = {"teacher"} /\ ~ToAll(resp)
               /\ \E i \in CoursesOf(resp) : ~OwnedByActor(resp, i))
              => resp.status = 403 /\ resp.detail = "Not your course"
         /\ (ActorRoles(resp) = {"teacher"} /\ ~ToAll(resp) /\ resp.status = 200)
              => /\ CoursesOf(resp) # {}
                 /\ \A i \in CoursesOf(resp) : OwnedByActor(resp, i)
         /\ (ActorRoles(resp) = {"admin"} /\ CoursesOf(resp) # {})
              => resp.status = 200

C4_NothingWrittenPart ==
    resp'.status = 403
      => <<user, course, assignment, enrollment, submission, announcement,
           material>>' = <<user, course, assignment, enrollment, submission,
                           announcement, material>>

\* C4 (amended): a teacher creates an assignment, a material or an
\* announcement for the audience of a course, or lists or grades the
\* submissions of a course, only if the course's teacher_id is the
\* teacher's id at that moment; otherwise the answer is 403 'Not your
\* course' and nothing is written; an admin is allowed on any course.  An
\* announcement with audience 'all' is stored without an ownership check,
\* whatever course_id it carries.
C4_CourseOwnership ==
    /\ []C4_OwnerPart
    /\ [][C4_NothingWrittenPart]_vars

C4_Witness ==
    /\ resp.op = "grade_submission"
    /\ resp.status = 403
    /\ resp.detail = "Not your course"
    /\ ActorRoles(resp) = {"teacher"}
    /\ \E i \in CoursesOf(resp) : ~OwnedByActor(resp, i)

\* C6: no two accounts have the same email.
C6_EmailUnique ==
    \A i, j \in DOMAIN user : user[i].email = user[j].email => i = j

C7_FieldsPart ==
    /\ \A i \in DOMAIN user :
          /\ i \in DOMAIN user'
          /\ user'[i]._id = user[i]._id
          /\ user'[i].role = user[i].role
          /\ user'[i].approved # user[i].approved
               => /\ resp'.op = "approve_user"
                  /\ resp'.status = 200
                  /\ ByAdmin(resp')
    /\ \A i \in DOMAIN user' \ DOMAIN user :
          /\ user'[i].approved = (user'[i].role # "teacher")
          /\ user'[i].role = "admin" => ~started

\* C7: the role of an account never changes; an account is created
\* approved unless its role is teacher, and its approved flag changes only
\* in a successful approve_user request of an admin; an admin account is
\* created only at startup.
C7_NoPrivilegeEscalation == [][C7_FieldsPart]_vars

C7_Witness ==
    /\ resp.op = "approve_user"
    /\ resp.status = 200
    /\ \E i \in DOMAIN user :
          /\ user[i]._id = resp.arg.user_id.hex
          /\ user[i].role = "teacher"
          /\ user[i].approved
          /\ user[i].name = "Ann"
\* the request is a registration under an email that an account holds
DuplicateRegistration(r) ==
    /\ r.op = "register"
    /\ r.arg.role # "admin"
    /\ AccountsWith(r.arg.email) # {}

C11_ConflictPart ==
    (db /\ DuplicateRegistration(resp'))
      => /\ resp'.status = 400
         /\ resp'.detail = "Email already registered"
         /\ resp'.token = {}
         /\ tokens' = tokens
         /\ user' = user

C11_LoginPart ==
    (db /\ resp.op = "login" /\ AccountsWith(resp.arg.email) # {})
      => LET i == Min(AccountsWith(resp.arg.email)) IN
         IF ~RightPassword(i, resp.arg.password) THEN resp.status = 401
         ELSE IF user[i].role # "admin" /\ ~user[i].approved THEN resp.status = 403
         ELSE resp.status = 200 /\ \A t \in resp.token : Holders(t) = {i}

\* C11: with the store configured, a register request (any name, password
\* and non-admin role) under an email that an account already holds is
\* answered 400 'Email already registered', issues no token and leaves the
\* user collection as it was, so there is still one account under the email
\* and a login is still decided by that account's own password and
\* approval flag.
C11_DuplicateRegistration ==
    /\ [][C11_ConflictPart]_vars
    /\ [](C11_LoginPart /\ \A i \in DOMAIN user : Cardinality(AccountsWith(user[i].email)) = 1)

\* a second registration under a taken email, with another name and another
\* password than the account's, has been turned down
C11_Witness ==
    /\ resp.op = "register"
    /\ resp.status = 400
    /\ resp.detail = "Email already registered"
    /\ \E i \in AccountsWith(resp.arg.email) :
          /\ user[i].role # "admin"
          /\ user[i].name # resp.arg.name
          /\ ~RightPassword(i, resp.arg.password)
          /\ user[i].role # resp.arg.role

\* the submission records of the student of request r for the assignment
\* that r names
SubmittedBefore(r) ==
    {i \in DOMAIN submission :
        /\ \E t \in r.hdr.tok : submission[i].student_id = t.sub
        /\ oid(submission[i].assignment_id) = oid(r.arg.assignment_id)}

Graded(d) == "grade" \in DOMAIN d

\* C13: when a student's submit_assignment succeeds for an assignment for
\* which a submission record of that student exists, no record is inserted;
\* the existing record takes the request's content and file_url and the
\* current time as its timestamps, and a grade and feedback written on it by
\* grade_submission stay as they were.
C13_ResubmissionInPlace ==
    [][(resp'.op = "submit_assignment" /\ resp'.status = 200
          /\ SubmittedBefore(resp') # {})
        => /\ Len(submission') = Len(submission)
           /\ \A i \in SubmittedBefore(resp') :
                 /\ submission'[i].content = resp'.arg.content
                 /\ submission'[i].file_url = resp'.arg.file_url
                 /\ submission'[i].created_at = now
                 /\ submission'[i].updated_at = now
                 /\ Graded(submission[i])
                      => /\ Graded(submission'[i])
                         /\ submission'[i].grade = submission[i].grade
                         /\ submission'[i].feedback = submission[i].feedback]_vars

\* the request needs the store: register, login, or a protected operation
\* reached with 'Bearer <token>' where the token is signed with the key and
\* has not expired
NeedsStore(r) ==
    \/ r.op \in {"register", "login"}
    \/ /\ r.op \notin {"idle", "register", "login"}
       /\ r.hdr.kind = "pair"
       /\ Lower(r.hdr.scheme) = "bearer"
       /\ \A t \in r.hdr.tok : SignatureValid(t) /\ ~Expired(t)

\* C12: while db is None, every request that needs the store is answered
\* with a 5xx status, never 401 or 403, and changes nothing in the store
\* nor issues a token.
C12_StoreUnavailable ==
    [][(~db /\ NeedsStore(resp'))
        => /\ resp'.status >= 500
           /\ resp'.token = {}
           /\ UNCHANGED <<user, course, assignment, enrollment, submission,
                          announcement, material, tokens>>]_vars

====
